---- MODULE Spec2Model ----
(***************************************************************************)
(* A model of ezjson: the flexible parser cascade (strict JSON, JSON       *)
(* Lines, JSON5, loose object literal), the tree builder and serializer,   *)
(* the JSONL emitter and the three panels of the page that call them.      *)
(*                                                                         *)
(* Text is a sequence of one-character strings.  A JSON value is a tagged  *)
(* record:                                                                 *)
(*   [t |-> "null"]                                                        *)
(*   [t |-> "boolean", b |-> TRUE]                                         *)
(*   [t |-> "number",  m |-> 15, e |-> -1]       the number m * 10^e       *)
(*   [t |-> "number",  sp |-> "Infinity"]        Infinity, -Infinity, NaN  *)
(*   [t |-> "string",  s |-> <<"a">>]                                      *)
(*   [t |-> "array",   items |-> <<v1, v2>>]                               *)
(*   [t |-> "object",  entries |-> <<[k |-> key, v |-> value], ...>>]      *)
(* with the entries of an object in the order Object.entries lists them,   *)
(* and [t |-> "undefined"] for undefined, which only an array handed to    *)
(* toJsonLines holds.  The object that parseLooseObjectLiteral fills also  *)
(* records whether its prototype has become null.                          *)
(*                                                                         *)
(* A number literal beyond the range of a double reads as Infinity or as   *)
(* zero, as a double does.  Outside the modelled texts: \u and \x escapes, *)
(* whitespace other than space, tab, CR and LF, number literals of more    *)
(* than nine significant digits, and subnormal numbers.                    *)
(***************************************************************************)
EXTENDS Integers, Sequences, FiniteSets, TLC

(***************************************************************************)
(* Characters and strings                                                  *)
(***************************************************************************)
EOF == "EOF"

At(s, i) == IF i >= 1 /\ i <= Len(s) THEN s[i] ELSE EOF

WhiteSpace == {" ", "\t", "\n", "\r"}

Digit == {"0", "1", "2", "3", "4", "5", "6", "7", "8", "9"}

DigitVal(c) ==
  CASE c = "0" -> 0 [] c = "1" -> 1 [] c = "2" -> 2 [] c = "3" -> 3
    [] c = "4" -> 4 [] c = "5" -> 5 [] c = "6" -> 6 [] c = "7" -> 7
    [] c = "8" -> 8 [] c = "9" -> 9

DigitChar(d) ==
  CASE d = 0 -> "0" [] d = 1 -> "1" [] d = 2 -> "2" [] d = 3 -> "3"
    [] d = 4 -> "4" [] d = 5 -> "5" [] d = 6 -> "6" [] d = 7 -> "7"
    [] d = 8 -> "8" [] d = 9 -> "9"

Letter ==
  {"a", "b", "c", "d", "e", "f", "g", "h", "i", "j", "k", "l", "m",
   "n", "o", "p", "q", "r", "s", "t", "u", "v", "w", "x", "y", "z",
   "A", "B", "C", "D", "E", "F", "G", "H", "I", "J", "K", "L", "M",
   "N", "O", "P", "Q", "R", "S", "T", "U", "V", "W", "X", "Y", "Z"}

\* the backquote character, which a TLA+ string literal cannot hold
Backquote == "<BQ>"

Quote == {"\"", "'", Backquote}

RECURSIVE SkipWS(_, _)
SkipWS(s, i) == IF At(s, i) \in WhiteSpace THEN SkipWS(s, i + 1) ELSE i

RECURSIVE SkipWSBack(_, _)
SkipWSBack(s, j) == IF At(s, j) \in WhiteSpace THEN SkipWSBack(s, j - 1) ELSE j

\* String.prototype.trim
trim(s) == SubSeq(s, SkipWS(s, 1), SkipWSBack(s, Len(s)))

\* s.slice(i - 1): the text from position i on
From(s, i) == SubSeq(s, i, Len(s))

\* does s hold the text w at position i
HasAt(s, i, w) ==
  /\ i + Len(w) - 1 <= Len(s)
  /\ \A k \in 1..Len(w) : s[i + k - 1] = w[k]

RECURSIVE Join(_, _)
Join(parts, sep) ==
  IF parts = <<>> THEN <<>>
  ELSE IF Len(parts) = 1 THEN parts[1]
  ELSE parts[1] \o sep \o Join(Tail(parts), sep)

(***************************************************************************)
(* Values                                                                  *)
(***************************************************************************)
NullV == [t |-> "null"]
BoolV(b) == [t |-> "boolean", b |-> b]
StrV(s) == [t |-> "string", s |-> s]
ArrV(items) == [t |-> "array", items |-> items]
ObjV(entries) == [t |-> "object", entries |-> entries]
SpecialV(name) == [t |-> "number", sp |-> name]

RECURSIVE Normalise(_, _)
Normalise(m, e) ==
  IF m = 0 THEN [t |-> "number", m |-> 0, e |-> 0]
  ELSE IF m % 10 = 0 THEN Normalise(m \div 10, e + 1)
  ELSE [t |-> "number", m |-> m, e |-> e]

RECURSIVE DigitCount(_)
DigitCount(n) == IF n < 10 THEN 1 ELSE 1 + DigitCount(n \div 10)

\* the first nine digits of m, a number of at most ten digits, as a number
LeadingNine(m) ==
  LET k == DigitCount(m) IN
  IF k > 9 THEN m \div 10 ELSE m * 10^(9 - k)

\* a decimal m * 10^e, m > 0, at or above 2^1024 - 2^970 =
\* 1.797693134862315807...e308, which a double rounds to Infinity
Overflows(m, e) ==
  LET n == DigitCount(m) + e IN
  \/ n > 309
  \/ /\ n = 309
     /\ \/ LeadingNine(m) > 179769313
        \/ LeadingNine(m) = 179769313 /\ DigitCount(m) > 9 /\ m % 10 > 4

\* a decimal m * 10^e, m > 0, below 2^-1075 = 2.4703282292...e-324, which a
\* double rounds to zero
Underflows(m, e) ==
  LET n == DigitCount(m) + e IN
  \/ n < -323
  \/ n = -323 /\ LeadingNine(m) < 247032823

\* the double nearest to the decimal m * 10^e, held as the shortest decimal
\* that reads back as it; m has at most ten digits, so above the subnormal
\* range that decimal is m * 10^e itself
NumV(m, e) ==
  LET a == IF m < 0 THEN 0 - m ELSE m IN
  IF m # 0 /\ Overflows(a, e)
  THEN SpecialV(IF m < 0 THEN "-Infinity" ELSE "Infinity")
  ELSE IF m # 0 /\ Underflows(a, e) THEN Normalise(0, 0)
  ELSE Normalise(m, e)

IsFinite(v) == v.t = "number" /\ "m" \in DOMAIN v

\* a canonical array index: "0", "1", "2", ... without leading zeros
IsArrayIndex(k) ==
  /\ Len(k) >= 1
  /\ Len(k) <= 9
  /\ \A i \in 1..Len(k) : k[i] \in Digit
  /\ (k[1] = "0" => Len(k) = 1)

RECURSIVE DigitsValue(_, _, _, _)
DigitsValue(s, i, j, acc) ==
  IF i > j THEN acc ELSE DigitsValue(s, i + 1, j, acc * 10 + DigitVal(s[i]))

IndexValue(k) == DigitsValue(k, 1, Len(k), 0)

HasKey(entries, k) == \E i \in 1..Len(entries) : entries[i].k = k

\* the place a new key takes in the property order: integer keys in
\* ascending order first, then the other keys in insertion order
InsertAt(entries, k) ==
  IF IsArrayIndex(k)
  THEN Cardinality({i \in 1..Len(entries) :
                      /\ IsArrayIndex(entries[i].k)
                      /\ IndexValue(entries[i].k) < IndexValue(k)}) + 1
  ELSE Len(entries) + 1

\* the own property k of an object set to v, as JSON.parse and JSON5.parse
\* define it
ObjSet(entries, k, v) ==
  IF HasKey(entries, k)
  THEN [i \in 1..Len(entries) |->
          IF entries[i].k = k THEN [k |-> k, v |-> v] ELSE entries[i]]
  ELSE LET p == InsertAt(entries, k) IN
       SubSeq(entries, 1, p - 1) \o <<[k |-> k, v |-> v]>>
         \o SubSeq(entries, p, Len(entries))

ObjGet(entries, k) == entries[CHOOSE i \in 1..Len(entries) : entries[i].k = k].v

\* deep equality of two values: objects compare as mappings, whatever the
\* order of their keys
RECURSIVE DeepEqual(_, _)
DeepEqual(a, b) ==
  IF a.t # b.t THEN FALSE
  ELSE IF a.t = "array"
  THEN /\ Len(a.items) = Len(b.items)
       /\ \A i \in 1..Len(a.items) : DeepEqual(a.items[i], b.items[i])
  ELSE IF a.t = "object"
  THEN /\ Len(a.entries) = Len(b.entries)
       /\ \A i \in 1..Len(a.entries) :
            /\ HasKey(b.entries, a.entries[i].k)
            /\ DeepEqual(a.entries[i].v, ObjGet(b.entries, a.entries[i].k))
  ELSE a = b

(***************************************************************************)
(* JSON.parse                                                              *)
(***************************************************************************)
Fail == [ok |-> FALSE]
Ok(v, i) == [ok |-> TRUE, v |-> v, i |-> i]

\* a character a string literal may not hold unescaped
ControlChar == {"\n", "\r", "\t", "\f", "<BS>"}

JsonEscape(d) ==
  CASE d = "\"" -> "\"" [] d = "\\" -> "\\" [] d = "/" -> "/"
    [] d = "b" -> "<BS>" [] d = "f" -> "\f" [] d = "n" -> "\n"
    [] d = "r" -> "\r" [] d = "t" -> "\t"

JsonEscapable == {"\"", "\\", "/", "b", "f", "n", "r", "t"}

RECURSIVE JsonString(_, _, _)
JsonString(s, i, acc) ==
  LET c == At(s, i) IN
  IF c = EOF THEN Fail
  ELSE IF c = "\"" THEN Ok(StrV(acc), i + 1)
  ELSE IF c = "\\"
  THEN IF At(s, i + 1) \in JsonEscapable
       THEN JsonString(s, i + 2, Append(acc, JsonEscape(At(s, i + 1))))
       ELSE Fail
  ELSE IF c \in ControlChar THEN Fail
  ELSE JsonString(s, i + 1, Append(acc, c))

RECURSIVE SkipDigits(_, _)
SkipDigits(s, i) == IF At(s, i) \in Digit THEN SkipDigits(s, i + 1) ELSE i

\* the number read from a sign, the digits s[i1..i2-1], the fraction digits
\* s[f1..f2-1] and an exponent part starting at x (the e or E), if any
NumberFrom(s, neg, i1, i2, f1, f2, x) ==
  LET int == DigitsValue(s, i1, i2 - 1, 0)
      mant == DigitsValue(s, f1, f2 - 1, int)
      hasExp == At(s, x) \in {"e", "E"}
      xs == IF At(s, x + 1) \in {"+", "-"} THEN x + 2 ELSE x + 1
      xe == SkipDigits(s, xs)
      ex == DigitsValue(s, xs, xe - 1, 0)
      sex == IF At(s, x + 1) = "-" THEN 0 - ex ELSE ex
  IN IF hasExp
     THEN IF xe = xs THEN Fail
          ELSE Ok(NumV(IF neg THEN 0 - mant ELSE mant, sex - (f2 - f1)), xe)
     ELSE Ok(NumV(IF neg THEN 0 - mant ELSE mant, 0 - (f2 - f1)), x)

JsonNumber(s, i) ==
  LET neg == At(s, i) = "-"
      i1 == IF neg THEN i + 1 ELSE i
      i2 == IF At(s, i1) = "0" THEN i1 + 1 ELSE SkipDigits(s, i1)
      hasFrac == At(s, i2) = "."
      f1 == IF hasFrac THEN i2 + 1 ELSE i2
      f2 == IF hasFrac THEN SkipDigits(s, f1) ELSE i2
  IN IF i2 = i1 THEN Fail
     ELSE IF hasFrac /\ f2 = f1 THEN Fail
     ELSE NumberFrom(s, neg, i1, i2, f1, f2, f2)

RECURSIVE JsonValue(_, _), JsonMembers(_, _, _), JsonElements(_, _, _)
JsonValue(s, i) ==
  LET c == At(s, i) IN
  CASE c = "{" ->
         LET j == SkipWS(s, i + 1) IN
         IF At(s, j) = "}" THEN Ok(ObjV(<<>>), j + 1)
         ELSE JsonMembers(s, j, <<>>)
    [] c = "[" ->
         LET j == SkipWS(s, i + 1) IN
         IF At(s, j) = "]" THEN Ok(ArrV(<<>>), j + 1)
         ELSE JsonElements(s, j, <<>>)
    [] c = "\"" -> JsonString(s, i + 1, <<>>)
    [] c = "-" \/ c \in Digit -> JsonNumber(s, i)
    [] c = "t" -> IF HasAt(s, i, <<"t", "r", "u", "e">>)
                  THEN Ok(BoolV(TRUE), i + 4) ELSE Fail
    [] c = "f" -> IF HasAt(s, i, <<"f", "a", "l", "s", "e">>)
                  THEN Ok(BoolV(FALSE), i + 5) ELSE Fail
    [] c = "n" -> IF HasAt(s, i, <<"n", "u", "l", "l">>)
                  THEN Ok(NullV, i + 4) ELSE Fail
    [] OTHER -> Fail

JsonMembers(s, j, entries) ==
  IF At(s, j) # "\"" THEN Fail
  ELSE LET key == JsonString(s, j + 1, <<>>) IN
       IF ~key.ok THEN Fail
       ELSE LET c == SkipWS(s, key.i) IN
            IF At(s, c) # ":" THEN Fail
            ELSE LET val == JsonValue(s, SkipWS(s, c + 1)) IN
                 IF ~val.ok THEN Fail
                 ELSE LET n == SkipWS(s, val.i)
                          next == ObjSet(entries, key.v.s, val.v)
                      IN IF At(s, n) = ","
                         THEN JsonMembers(s, SkipWS(s, n + 1), next)
                         ELSE IF At(s, n) = "}" THEN Ok(ObjV(next), n + 1)
                         ELSE Fail

JsonElements(s, j, items) ==
  LET val == JsonValue(s, j) IN
  IF ~val.ok THEN Fail
  ELSE LET n == SkipWS(s, val.i)
           next == Append(items, val.v)
       IN IF At(s, n) = "," THEN JsonElements(s, SkipWS(s, n + 1), next)
          ELSE IF At(s, n) = "]" THEN Ok(ArrV(next), n + 1)
          ELSE Fail

\* JSON.parse(text): [ok |-> TRUE, v |-> value], or Fail for a SyntaxError
JSONparse(s) ==
  LET r == JsonValue(s, SkipWS(s, 1)) IN
  IF r.ok /\ SkipWS(s, r.i) = Len(s) + 1 THEN [ok |-> TRUE, v |-> r.v]
  ELSE Fail

(***************************************************************************)
(* JSON5.parse (the json5 package)                                         *)
(***************************************************************************)
HexDigit ==
  Digit \cup {"a", "b", "c", "d", "e", "f", "A", "B", "C", "D", "E", "F"}

HexVal(c) ==
  CASE c \in Digit -> DigitVal(c)
    [] c \in {"a", "A"} -> 10 [] c \in {"b", "B"} -> 11
    [] c \in {"c", "C"} -> 12 [] c \in {"d", "D"} -> 13
    [] c \in {"e", "E"} -> 14 [] c \in {"f", "F"} -> 15

RECURSIVE SkipIn(_, _, _)
SkipIn(s, i, set) == IF At(s, i) \in set THEN SkipIn(s, i + 1, set) ELSE i

RECURSIVE RadixValue(_, _, _, _, _)
RadixValue(s, i, j, radix, acc) ==
  IF i > j THEN acc
  ELSE RadixValue(s, i + 1, j, radix, acc * radix + HexVal(s[i]))

\* the position of the next token, past whitespace and comments; 0 when a
\* comment is malformed
RECURSIVE Skip5(_, _), SkipLineComment(_, _), SkipBlockComment(_, _)
Skip5(s, i) ==
  LET c == At(s, i) IN
  IF c \in WhiteSpace THEN Skip5(s, i + 1)
  ELSE IF c = "/"
  THEN IF At(s, i + 1) = "/" THEN SkipLineComment(s, i + 2)
       ELSE IF At(s, i + 1) = "*" THEN SkipBlockComment(s, i + 2)
       ELSE 0
  ELSE i

SkipLineComment(s, i) ==
  LET c == At(s, i) IN
  IF c = EOF THEN i
  ELSE IF c \in {"\n", "\r"} THEN Skip5(s, i + 1)
  ELSE SkipLineComment(s, i + 1)

SkipBlockComment(s, i) ==
  LET c == At(s, i) IN
  IF c = EOF THEN 0
  ELSE IF c = "*" /\ At(s, i + 1) = "/" THEN Skip5(s, i + 2)
  ELSE SkipBlockComment(s, i + 1)

J5Escape(d) ==
  CASE d = "b" -> "<BS>" [] d = "f" -> "\f" [] d = "n" -> "\n"
    [] d = "r" -> "\r" [] d = "t" -> "\t" [] d = "v" -> "<VT>"
    [] d = "0" -> "<NUL>"
    [] OTHER -> d

RECURSIVE J5String(_, _, _, _)
J5String(s, i, q, acc) ==
  LET c == At(s, i)
      d == At(s, i + 1)
  IN
  IF c = EOF THEN Fail
  ELSE IF c = q THEN Ok(StrV(acc), i + 1)
  ELSE IF c \in {"\n", "\r"} THEN Fail
  ELSE IF c = "\\"
  THEN IF d = EOF \/ d \in {"x", "u"} \/ d \in (Digit \ {"0"}) THEN Fail
       ELSE IF d = "0" /\ At(s, i + 2) \in Digit THEN Fail
       ELSE IF d = "\n" THEN J5String(s, i + 2, q, acc)
       ELSE IF d = "\r"
       THEN J5String(s, IF At(s, i + 2) = "\n" THEN i + 3 ELSE i + 2, q, acc)
       ELSE J5String(s, i + 2, q, Append(acc, J5Escape(d)))
  ELSE J5String(s, i + 1, q, Append(acc, c))

J5Number(s, i) ==
  LET signed == At(s, i) \in {"+", "-"}
      neg == At(s, i) = "-"
      i1 == IF signed THEN i + 1 ELSE i
      i2 == IF At(s, i1) = "0" THEN i1 + 1 ELSE SkipDigits(s, i1)
      hasPoint == At(s, i2) = "."
      f1 == IF hasPoint THEN i2 + 1 ELSE i2
      f2 == IF hasPoint THEN SkipDigits(s, f1) ELSE i2
      h2 == SkipIn(s, i1 + 2, HexDigit)
  IN IF HasAt(s, i1, <<"I", "n", "f", "i", "n", "i", "t", "y">>)
     THEN Ok(SpecialV(IF neg THEN "-Infinity" ELSE "Infinity"), i1 + 8)
     ELSE IF HasAt(s, i1, <<"N", "a", "N">>) THEN Ok(SpecialV("NaN"), i1 + 3)
     ELSE IF At(s, i1) = "0" /\ At(s, i1 + 1) \in {"x", "X"}
     THEN IF h2 = i1 + 2 THEN Fail
          ELSE LET h == RadixValue(s, i1 + 2, h2 - 1, 16, 0) IN
               Ok(NumV(IF neg THEN 0 - h ELSE h, 0), h2)
     ELSE IF i2 = i1 /\ f2 = f1 THEN Fail
     ELSE NumberFrom(s, neg, i1, i2, f1, f2, f2)

IdStart == Letter \cup {"$", "_"}
IdPart == IdStart \cup Digit

RECURSIVE J5Value(_, _), J5Members(_, _, _), J5Elements(_, _, _)
J5Value(s, i) ==
  LET c == At(s, i) IN
  CASE c = "{" -> J5Members(s, Skip5(s, i + 1), <<>>)
    [] c = "[" -> J5Elements(s, Skip5(s, i + 1), <<>>)
    [] c \in {"\"", "'"} -> J5String(s, i + 1, c, <<>>)
    [] c \in Digit \cup {"+", "-", ".", "I", "N"} -> J5Number(s, i)
    [] c = "t" -> IF HasAt(s, i, <<"t", "r", "u", "e">>)
                  THEN Ok(BoolV(TRUE), i + 4) ELSE Fail
    [] c = "f" -> IF HasAt(s, i, <<"f", "a", "l", "s", "e">>)
                  THEN Ok(BoolV(FALSE), i + 5) ELSE Fail
    [] c = "n" -> IF HasAt(s, i, <<"n", "u", "l", "l">>)
                  THEN Ok(NullV, i + 4) ELSE Fail
    [] OTHER -> Fail

J5Members(s, j, entries) ==
  LET c == At(s, j)
      key == IF c \in {"\"", "'"} THEN J5String(s, j + 1, c, <<>>)
             ELSE IF c \in IdStart
             THEN LET e == SkipIn(s, j, IdPart) IN Ok(StrV(SubSeq(s, j, e - 1)), e)
             ELSE Fail
  IN
  IF c = "}" THEN Ok(ObjV(entries), j + 1)
  ELSE IF ~key.ok THEN Fail
  ELSE LET p == Skip5(s, key.i) IN
       IF At(s, p) # ":" THEN Fail
       ELSE LET val == J5Value(s, Skip5(s, p + 1)) IN
            IF ~val.ok THEN Fail
            ELSE LET n == Skip5(s, val.i)
                     next == ObjSet(entries, key.v.s, val.v)
                 IN IF At(s, n) = "," THEN J5Members(s, Skip5(s, n + 1), next)
                    ELSE IF At(s, n) = "}" THEN Ok(ObjV(next), n + 1)
                    ELSE Fail

J5Elements(s, j, items) ==
  IF At(s, j) = "]" THEN Ok(ArrV(items), j + 1)
  ELSE LET val == J5Value(s, j) IN
       IF ~val.ok THEN Fail
       ELSE LET n == Skip5(s, val.i)
                next == Append(items, val.v)
            IN IF At(s, n) = "," THEN J5Elements(s, Skip5(s, n + 1), next)
               ELSE IF At(s, n) = "]" THEN Ok(ArrV(next), n + 1)
               ELSE Fail

\* JSON5.parse(text): [ok |-> TRUE, v |-> value], or Fail for a SyntaxError
JSON5parse(s) ==
  LET r == J5Value(s, Skip5(s, 1)) IN
  IF r.ok /\ Skip5(s, r.i) = Len(s) + 1 THEN [ok |-> TRUE, v |-> r.v]
  ELSE Fail

(***************************************************************************)
(* Number(text)                                                            *)
(***************************************************************************)
NaN == SpecialV("NaN")

RadixLiteral(t, digits, radix) ==
  LET e == SkipIn(t, 3, digits) IN
  IF Len(t) >= 3 /\ e = Len(t) + 1 THEN NumV(RadixValue(t, 3, Len(t), radix, 0), 0)
  ELSE NaN

StringToNumber(s) ==
  LET t == trim(s)
      signed == At(t, 1) \in {"+", "-"}
      neg == At(t, 1) = "-"
      i1 == IF signed THEN 2 ELSE 1
      i2 == SkipDigits(t, i1)
      hasPoint == At(t, i2) = "."
      f1 == IF hasPoint THEN i2 + 1 ELSE i2
      f2 == IF hasPoint THEN SkipDigits(t, f1) ELSE i2
      r == NumberFrom(t, neg, i1, i2, f1, f2, f2)
  IN IF t = <<>> THEN NumV(0, 0)
     ELSE IF From(t, i1) = <<"I", "n", "f", "i", "n", "i", "t", "y">>
     THEN SpecialV(IF neg THEN "-Infinity" ELSE "Infinity")
     ELSE IF At(t, 1) = "0" /\ At(t, 2) \in {"x", "X"} THEN RadixLiteral(t, HexDigit, 16)
     ELSE IF At(t, 1) = "0" /\ At(t, 2) \in {"o", "O"}
     THEN RadixLiteral(t, {"0", "1", "2", "3", "4", "5", "6", "7"}, 8)
     ELSE IF At(t, 1) = "0" /\ At(t, 2) \in {"b", "B"} THEN RadixLiteral(t, {"0", "1"}, 2)
     ELSE IF i2 = i1 /\ f2 = f1 THEN NaN
     ELSE IF r.ok /\ r.i = Len(t) + 1 THEN r.v
     ELSE NaN

(***************************************************************************)
(* The loose object literal parser                                         *)
(***************************************************************************)
\* text.replace(/^['"`]/, "")
StripLeadingQuote(s) == IF At(s, 1) \in Quote THEN From(s, 2) ELSE s

\* text.replace(/['"`]$/, "")
StripTrailingQuote(s) ==
  IF At(s, Len(s)) \in Quote THEN SubSeq(s, 1, Len(s) - 1) ELSE s

\* text.replace(/,$/, "")
StripTrailingComma(s) ==
  IF At(s, Len(s)) = "," THEN SubSeq(s, 1, Len(s) - 1) ELSE s

NoKey == [ok |-> FALSE]

\* sanitiseKey that returns the cleaned key even when it is empty
sanitiseKeyAcceptingEmpty(rawKey) ==
  [ok |-> TRUE, key |-> StripTrailingQuote(StripLeadingQuote(trim(rawKey)))]

\* the cleaned key, or NoKey for null
sanitiseKey(rawKey) ==
  LET cleaned == StripTrailingQuote(StripLeadingQuote(trim(rawKey))) IN
  IF cleaned = <<>> THEN NoKey ELSE [ok |-> TRUE, key |-> cleaned]

NoChar == "<none>"

splitInit ==
  [parts |-> <<>>, depth |-> 0, current |-> <<>>, inString |-> FALSE,
   stringChar |-> NoChar]

\* splitStep that cuts at every comma outside a string literal, whatever the
\* depth
splitStepAtAnyDepth(st, char, prevChar) ==
  IF st.inString
  THEN IF char = st.stringChar /\ prevChar # "\\"
       THEN [st EXCEPT !.current = Append(@, char), !.inString = FALSE,
                       !.stringChar = NoChar]
       ELSE [st EXCEPT !.current = Append(@, char)]
  ELSE IF char \in Quote
  THEN [st EXCEPT !.inString = TRUE, !.stringChar = char,
                  !.current = Append(@, char)]
  ELSE IF char \in {"{", "[", "("}
  THEN [st EXCEPT !.depth = @ + 1, !.current = Append(@, char)]
  ELSE IF char \in {"}", "]", ")"}
  THEN [st EXCEPT !.depth = IF @ - 1 > 0 THEN @ - 1 ELSE 0,
                  !.current = Append(@, char)]
  ELSE IF char = ","
  THEN [st EXCEPT !.parts = Append(@, trim(st.current)), !.current = <<>>]
  ELSE [st EXCEPT !.current = Append(@, char)]

\* splitStep that takes a quote that follows a backslash for an ordinary
\* character
splitStepEscapedEntry(st, char, prevChar) ==
  IF st.inString
  THEN IF char = st.stringChar /\ prevChar # "\\"
       THEN [st EXCEPT !.current = Append(@, char), !.inString = FALSE,
                       !.stringChar = NoChar]
       ELSE [st EXCEPT !.current = Append(@, char)]
  ELSE IF char \in Quote /\ prevChar # "\\"
  THEN [st EXCEPT !.inString = TRUE, !.stringChar = char,
                  !.current = Append(@, char)]
  ELSE IF char \in {"{", "[", "("}
  THEN [st EXCEPT !.depth = @ + 1, !.current = Append(@, char)]
  ELSE IF char \in {"}", "]", ")"}
  THEN [st EXCEPT !.depth = IF @ - 1 > 0 THEN @ - 1 ELSE 0,
                  !.current = Append(@, char)]
  ELSE IF char = "," /\ st.depth = 0
  THEN [st EXCEPT !.parts = Append(@, trim(st.current)), !.current = <<>>]
  ELSE [st EXCEPT !.current = Append(@, char)]

\* splitStep whose depth goes below 0
splitStepNoFloor(st, char, prevChar) ==
  IF st.inString
  THEN IF char = st.stringChar /\ prevChar # "\\"
       THEN [st EXCEPT !.current = Append(@, char), !.inString = FALSE,
                       !.stringChar = NoChar]
       ELSE [st EXCEPT !.current = Append(@, char)]
  ELSE IF char \in Quote
  THEN [st EXCEPT !.inString = TRUE, !.stringChar = char,
                  !.current = Append(@, char)]
  ELSE IF char \in {"{", "[", "("}
  THEN [st EXCEPT !.depth = @ + 1, !.current = Append(@, char)]
  ELSE IF char \in {"}", "]", ")"}
  THEN [st EXCEPT !.depth = @ - 1,
                  !.current = Append(@, char)]
  ELSE IF char = "," /\ st.depth = 0
  THEN [st EXCEPT !.parts = Append(@, trim(st.current)), !.current = <<>>]
  ELSE [st EXCEPT !.current = Append(@, char)]

\* one turn of the loop of splitTopLevel
splitStep(st, char, prevChar) ==
  IF st.inString
  THEN IF char = st.stringChar /\ prevChar # "\\"
       THEN [st EXCEPT !.current = Append(@, char), !.inString = FALSE,
                       !.stringChar = NoChar]
       ELSE [st EXCEPT !.current = Append(@, char)]
  ELSE IF char \in Quote
  THEN [st EXCEPT !.inString = TRUE, !.stringChar = char,
                  !.current = Append(@, char)]
  ELSE IF char \in {"{", "[", "("}
  THEN [st EXCEPT !.depth = @ + 1, !.current = Append(@, char)]
  ELSE IF char \in {"}", "]", ")"}
  THEN [st EXCEPT !.depth = IF @ - 1 > 0 THEN @ - 1 ELSE 0,
                  !.current = Append(@, char)]
  ELSE IF char = "," /\ st.depth = 0
  THEN [st EXCEPT !.parts = Append(@, trim(st.current)), !.current = <<>>]
  ELSE [st EXCEPT !.current = Append(@, char)]

RECURSIVE splitScan(_, _, _)
splitScan(input, i, st) ==
  IF i > Len(input) THEN st
  ELSE splitScan(input, i + 1,
                 splitStep(st, input[i], IF i > 1 THEN input[i - 1] ELSE NoChar))

\* finalParts that emits the final part even when it is empty
finalPartsKeepingEmpty(st) == Append(st.parts, trim(st.current))

\* what splitTopLevel returns once the loop is over
finalParts(st) ==
  LET finalPart == trim(st.current)
  IN IF finalPart # <<>> THEN Append(st.parts, finalPart) ELSE st.parts

splitTopLevel(input) == finalParts(splitScan(input, 1, splitInit))

\* segment.indexOf(":") + 1, or 0 when there is none
RECURSIVE IndexOf(_, _, _)
IndexOf(s, c, i) ==
  IF i > Len(s) THEN 0 ELSE IF s[i] = c THEN i ELSE IndexOf(s, c, i + 1)

\* firstReading that goes from JSON5 straight to the text itself
firstReadingWithoutNumber(cleanedValue, json, json5, num) ==
  IF json.ok THEN json.v
  ELSE IF json5.ok THEN json5.v
  ELSE StrV(StripTrailingQuote(StripLeadingQuote(cleanedValue)))

\* the first of the four readings of a value text that succeeds
firstReading(cleanedValue, json, json5, num) ==
  IF json.ok THEN json.v
  ELSE IF json5.ok THEN json5.v
  ELSE IF num # NaN THEN num
  ELSE StrV(StripTrailingQuote(StripLeadingQuote(cleanedValue)))

readValue(cleanedValue) ==
  firstReading(cleanedValue, JSONparse(cleanedValue), JSON5parse(cleanedValue),
               StringToNumber(cleanedValue))

\* the value a non-empty raw value stands for
looseValue(rawValue) == readValue(StripTrailingComma(rawValue))

LooseFailure == [success |-> FALSE]
LooseSuccess(entries) == [success |-> TRUE, data |-> ObjV(entries)]

\* the value one segment gives its key
segmentValue(segment, colonIndex) ==
  LET rawValue == trim(From(segment, colonIndex + 1)) IN
  IF colonIndex = 0 \/ rawValue = <<>> THEN NullV ELSE looseValue(rawValue)

ProtoKey == <<"_", "_", "p", "r", "o", "t", "o", "_", "_">>

\* const result = {}: no property, and Object.prototype for prototype
NewObject == [entries |-> <<>>, bare |-> FALSE]

\* result[key] = v: while result inherits from Object.prototype the key
\* __proto__ names its accessor, whose setter adds no property: it makes v the
\* prototype when v is null or an object, and does nothing otherwise. Once the
\* prototype is null (bare) the key is a key like any other
Assign(obj, k, v) ==
  IF k = ProtoKey /\ ~obj.bare
  THEN [obj EXCEPT !.bare = (v.t = "null")]
  ELSE [obj EXCEPT !.entries = ObjSet(@, k, v)]

\* the loop over the segments: done marks a return out of the loop
RECURSIVE looseSegments(_, _, _)
looseSegments(segments, n, result) ==
  LET segment == segments[n]
      colonIndex == IndexOf(segment, ":", 1)
      key == sanitiseKey(IF colonIndex = 0 THEN segment
                         ELSE SubSeq(segment, 1, colonIndex - 1))
      done == n > Len(segments) \/ (segment # <<>> /\ ~key.ok)
  IN IF done
     THEN IF n > Len(segments) THEN LooseSuccess(result.entries) ELSE LooseFailure
     ELSE looseSegments(segments, n + 1,
            IF segment = <<>> THEN result
            ELSE Assign(result, key.key, segmentValue(segment, colonIndex)))

parseLooseObjectLiteral(input) ==
  LET trimmed == trim(input)
      inner == trim(SubSeq(trimmed, 2, Len(trimmed) - 1))
  IN IF At(trimmed, 1) # "{" \/ At(trimmed, Len(trimmed)) # "}" THEN LooseFailure
     ELSE IF inner = <<>> THEN LooseSuccess(<<>>)
     ELSE looseSegments(splitTopLevel(inner), 1, NewObject)

(***************************************************************************)
(* The flexible parser                                                     *)
(***************************************************************************)
\* trimmed.split(/\r?\n/)
RECURSIVE splitNewlines(_, _, _, _)
splitNewlines(s, i, cur, acc) ==
  IF i > Len(s) THEN Append(acc, cur)
  ELSE IF s[i] = "\n"
  THEN splitNewlines(s, i + 1, <<>>,
         Append(acc, IF At(cur, Len(cur)) = "\r"
                     THEN SubSeq(cur, 1, Len(cur) - 1) ELSE cur))
  ELSE splitNewlines(s, i + 1, Append(cur, s[i]), acc)

RECURSIVE nonEmpty(_)
nonEmpty(seq) ==
  IF seq = <<>> THEN <<>>
  ELSE IF Head(seq) = <<>> THEN nonEmpty(Tail(seq))
  ELSE <<Head(seq)>> \o nonEmpty(Tail(seq))

\* linesOf without the filter: blank lines stay
linesOfKeepingBlank(trimmed) ==
  LET raw == splitNewlines(trimmed, 1, <<>>, <<>>) IN
  [i \in 1..Len(raw) |-> trim(raw[i])]

\* the non-empty trimmed lines of the trimmed input
linesOf(trimmed) ==
  LET raw == splitNewlines(trimmed, 1, <<>>, <<>>) IN
  nonEmpty([i \in 1..Len(raw) |-> trim(raw[i])])

\* the first of the three readings of a line that succeeds
firstOfLine(json, json5, loose) ==
  IF json.ok THEN json
  ELSE IF json5.ok THEN json5
  ELSE IF loose.success THEN [ok |-> TRUE, v |-> loose.data]
  ELSE Fail

\* one line of a JSON Lines candidate: strict JSON, else JSON5, else loose
parseLine(line) ==
  firstOfLine(JSONparse(line), JSON5parse(line), parseLooseObjectLiteral(line))

RECURSIVE parseLines(_, _, _)

\* one turn of the loop over the lines, r being what the line parsed to
pushLine(lines, n, parsedLines, r) ==
  IF r.ok THEN parseLines(lines, n + 1, Append(parsedLines, r.v))
  ELSE [valid |-> FALSE, parsedLines |-> parsedLines]

\* parseLines that passes over a line that does not parse
RECURSIVE parseLinesSkippingBad(_, _, _)
parseLinesSkippingBad(lines, n, parsedLines) ==
  IF n > Len(lines) THEN [valid |-> TRUE, parsedLines |-> parsedLines]
  ELSE LET r == parseLine(lines[n]) IN
       parseLinesSkippingBad(lines, n + 1,
                             IF r.ok THEN Append(parsedLines, r.v) ELSE parsedLines)

\* the loop over the lines: it stops at the first line that does not parse
parseLines(lines, n, parsedLines) ==
  IF n > Len(lines) THEN [valid |-> TRUE, parsedLines |-> parsedLines]
  ELSE pushLine(lines, n, parsedLines, parseLine(lines[n]))

EmptyMessage == "Add some JSON to get started."
NotUnderstoodMessage == "We couldn't understand the input."

Parsed(data, source, tried) ==
  [ok |-> TRUE, data |-> data, source |-> source, tried |-> tried]
ParseError(message, tried) ==
  [ok |-> FALSE, message |-> message, tried |-> tried]

\* the first of the two readings of the whole input that succeeds
firstOfWhole(json5, loose, tried) ==
  IF json5.ok THEN Parsed(json5.v, "json5", Append(tried, "json5"))
  ELSE IF loose.success
  THEN Parsed(loose.data, "loose-object", tried \o <<"json5", "loose-object">>)
  ELSE ParseError(NotUnderstoodMessage, tried \o <<"json5", "loose-object">>)

\* the whole-input attempts that follow the JSON Lines attempt
wholeDocument(trimmed, tried) ==
  firstOfWhole(JSON5parse(trimmed), parseLooseObjectLiteral(trimmed), tried)

\* parseFlexibleJson with JSON5 tried on the whole input before strict JSON
parseFlexibleJsonJson5First(input) ==
  LET trimmed == trim(input) IN
  IF trimmed = <<>> THEN ParseError(EmptyMessage, <<>>)
  ELSE wholeDocument(trimmed, <<>>)

\* parseFlexibleJson with JSON5 tried on the whole input before the lines
parseFlexibleJsonJson5BeforeLines(input) ==
  LET trimmed == trim(input)
      json == JSONparse(trimmed)
      json5 == JSON5parse(trimmed)
      lines == linesOf(trimmed)
      jsonl == parseLines(lines, 1, <<>>)
  IN IF trimmed = <<>> THEN ParseError(EmptyMessage, <<>>)
     ELSE IF json.ok THEN Parsed(json.v, "json", <<"json">>)
     ELSE IF json5.ok THEN Parsed(json5.v, "json5", <<"json", "json5">>)
     ELSE IF Len(lines) > 1 /\ jsonl.valid
     THEN Parsed(ArrV(jsonl.parsedLines), "jsonl", <<"json", "json5", "jsonl">>)
     ELSE wholeDocument(trimmed, <<"json">>)

\* parseFlexibleJson without the early throw on an empty input
parseFlexibleJsonNoEmptyCheck(input) ==
  LET trimmed == trim(input)
      json == JSONparse(trimmed)
  IN IF json.ok THEN Parsed(json.v, "json", <<"json">>)
     ELSE wholeDocument(trimmed, <<"json">>)

\* afterStrictJson that takes the lines whenever they all parse, be there
\* one line only
afterStrictJsonAnyLineCount(trimmed, several, jsonl) ==
  IF jsonl.valid
  THEN Parsed(ArrV(jsonl.parsedLines), "jsonl", <<"json", "jsonl">>)
  ELSE wholeDocument(trimmed, IF several THEN <<"json", "jsonl">> ELSE <<"json">>)

\* the catch block of the strict JSON attempt: jsonl is what the loop over
\* the lines left, when there is more than one line
afterStrictJson(trimmed, several, jsonl) ==
  IF several /\ jsonl.valid
  THEN Parsed(ArrV(jsonl.parsedLines), "jsonl", <<"json", "jsonl">>)
  ELSE wholeDocument(trimmed, IF several THEN <<"json", "jsonl">> ELSE <<"json">>)

\* the cascade on the trimmed input, json being its strict JSON reading
cascade(trimmed, json, lines) ==
  IF trimmed = <<>> THEN ParseError(EmptyMessage, <<>>)
  ELSE IF json.ok THEN Parsed(json.v, "json", <<"json">>)
  ELSE afterStrictJson(trimmed, Len(lines) > 1, parseLines(lines, 1, <<>>))

\* parseFlexibleJson(input); tried lists the attempts made, in order
parseFlexibleJson(input) ==
  cascade(trim(input), JSONparse(trim(input)), linesOf(trim(input)))

(***************************************************************************)
(* JSON.stringify                                                          *)
(***************************************************************************)
RECURSIVE DigitsOf(_)
DigitsOf(n) ==
  IF n < 10 THEN <<DigitChar(n)>>
  ELSE Append(DigitsOf(n \div 10), DigitChar(n % 10))

Zeros(n) == [i \in 1..n |-> "0"]

\* Number.prototype.toString of the finite number m * 10^e
NumberToString(m, e) ==
  LET digits == DigitsOf(IF m < 0 THEN 0 - m ELSE m)
      k == Len(digits)
      n == k + e
      sign == IF m < 0 THEN <<"-">> ELSE <<>>
      x == n - 1
      exp == <<"e", IF x < 0 THEN "-" ELSE "+">> \o DigitsOf(IF x < 0 THEN 0 - x ELSE x)
  IN IF m = 0 THEN <<"0">>
     ELSE IF k <= n /\ n <= 21 THEN sign \o digits \o Zeros(n - k)
     ELSE IF 0 < n /\ n <= 21
     THEN sign \o SubSeq(digits, 1, n) \o <<".">> \o SubSeq(digits, n + 1, k)
     ELSE IF -6 < n /\ n <= 0 THEN sign \o <<"0", ".">> \o Zeros(0 - n) \o digits
     ELSE IF k = 1 THEN sign \o digits \o exp
     ELSE sign \o <<digits[1], ".">> \o SubSeq(digits, 2, k) \o exp

QuoteChar(c) ==
  CASE c = "\"" -> <<"\\", "\"">>
    [] c = "\\" -> <<"\\", "\\">>
    [] c = "\n" -> <<"\\", "n">>
    [] c = "\r" -> <<"\\", "r">>
    [] c = "\t" -> <<"\\", "t">>
    [] c = "\f" -> <<"\\", "f">>
    [] c = "<BS>" -> <<"\\", "b">>
    [] c = "<VT>" -> <<"\\", "u", "0", "0", "0", "b">>
    [] c = "<NUL>" -> <<"\\", "u", "0", "0", "0", "0">>
    [] OTHER -> <<c>>

RECURSIVE QuoteChars(_)
QuoteChars(s) ==
  IF s = <<>> THEN <<>> ELSE QuoteChar(Head(s)) \o QuoteChars(Tail(s))

\* JSON.stringify of a string
QuoteString(s) == <<"\"">> \o QuoteChars(s) \o <<"\"">>

Spaces(n) == [i \in 1..n |-> " "]

\* JSON.stringify(value, null, gap) at the indentation indent; gap 0 is the
\* compact form JSON.stringify(value)
RECURSIVE Stringify(_, _, _)
Stringify(v, gap, indent) ==
  LET inner == indent + gap
      open == IF gap = 0 THEN <<>> ELSE <<"\n">> \o Spaces(inner)
      sep == <<",">> \o open
      close == IF gap = 0 THEN <<>> ELSE <<"\n">> \o Spaces(indent)
      colon == IF gap = 0 THEN <<":">> ELSE <<":", " ">>
  IN CASE v.t = "null" -> <<"n", "u", "l", "l">>
       [] v.t = "boolean" ->
            IF v.b THEN <<"t", "r", "u", "e">> ELSE <<"f", "a", "l", "s", "e">>
       [] v.t = "number" ->
            IF IsFinite(v) THEN NumberToString(v.m, v.e) ELSE <<"n", "u", "l", "l">>
       [] v.t = "string" -> QuoteString(v.s)
       [] v.t = "array" ->
            IF v.items = <<>> THEN <<"[", "]">>
            ELSE <<"[">> \o open
                 \o Join([i \in 1..Len(v.items) |-> Stringify(v.items[i], gap, inner)], sep)
                 \o close \o <<"]">>
       [] v.t = "object" ->
            IF v.entries = <<>> THEN <<"{", "}">>
            ELSE <<"{">> \o open
                 \o Join([i \in 1..Len(v.entries) |->
                            QuoteString(v.entries[i].k) \o colon
                              \o Stringify(v.entries[i].v, gap, inner)], sep)
                 \o close \o <<"}">>

JSONstringify(v) == Stringify(v, 0, 0)

IndentWidth == 2

\* JSON.stringify(value, null, 2)
prettyPrint(v) == Stringify(v, IndentWidth, 0)

(***************************************************************************)
(* The JSONL emitter                                                       *)
(***************************************************************************)
\* undefined, which no parser returns but an array handed to toJsonLines can
\* hold
UndefinedV == [t |-> "undefined"]

\* typeof JSON.stringify(item) === "string": of the values of the model only
\* undefined has a JSON.stringify that is not a string
StringifiesToString(item) == item.t # "undefined"

\* what a call of toJsonLines ends in: the lines returned, or the error thrown
Returned(ls) == [ok |-> TRUE, lines |-> ls]
ItemError(index) ==
  [ok |-> FALSE, message |-> "Item at index ${index} cannot be represented as JSON.",
   index |-> index]

\* value.map(...) of toJsonLines: the callback runs on the items in order, and
\* the first one whose JSON.stringify is not a string throws, index counting
\* from 0
mapItems(items) ==
  LET bad == {index \in 1..Len(items) : ~StringifiesToString(items[index])}
  IN IF bad # {}
     THEN ItemError((CHOOSE index \in bad : \A other \in bad : index <= other) - 1)
     ELSE Returned([index \in 1..Len(items) |-> JSONstringify(items[index])])

\* toJsonLines that writes an array on one line, as it does any other value
toJsonLinesOnOneLine(value) == Returned(<<JSONstringify(value)>>)

\* toJsonLines(value): the JSON.stringify of an object or an array of the model
\* is never empty, so the throw of the object branch is not reached
toJsonLines(value) ==
  IF value.t = "array" THEN mapItems(value.items)
  ELSE Returned(<<JSONstringify(value)>>)

(***************************************************************************)
(* The tree builder and the tree serializer                                *)
(***************************************************************************)
RootKey == <<"r", "o", "o", "t">>

\* parseJsonStructure that keeps the value on the nodes of arrays and objects
RECURSIVE parseJsonStructureKeepingValue(_, _)
parseJsonStructureKeepingValue(data, key) ==
  CASE data.t = "null" -> [key |-> key, type |-> "null", value |-> data]
    [] data.t = "array" ->
         [key |-> key, type |-> "array", arrayLength |-> Len(data.items),
          value |-> data,
          children |-> [index \in 1..Len(data.items) |->
                          parseJsonStructureKeepingValue(data.items[index],
                                                         DigitsOf(index - 1))]]
    [] data.t = "object" ->
         [key |-> key, type |-> "object", value |-> data,
          children |-> [n \in 1..Len(data.entries) |->
                          parseJsonStructureKeepingValue(data.entries[n].v,
                                                         data.entries[n].k)]]
    [] data.t \in {"string", "number", "boolean"} ->
         [key |-> key, type |-> data.t, value |-> data]

\* parseJsonStructure that numbers the items of an array from one
RECURSIVE parseJsonStructureFromOne(_, _)
parseJsonStructureFromOne(data, key) ==
  CASE data.t = "null" -> [key |-> key, type |-> "null", value |-> data]
    [] data.t = "array" ->
         [key |-> key, type |-> "array", arrayLength |-> Len(data.items),
          children |-> [index \in 1..Len(data.items) |->
                          parseJsonStructureFromOne(data.items[index],
                                                    DigitsOf(index))]]
    [] data.t = "object" ->
         [key |-> key, type |-> "object",
          children |-> [n \in 1..Len(data.entries) |->
                          parseJsonStructureFromOne(data.entries[n].v,
                                                    data.entries[n].k)]]
    [] data.t \in {"string", "number", "boolean"} ->
         [key |-> key, type |-> data.t, value |-> data]

RECURSIVE parseJsonStructure(_, _)
parseJsonStructure(data, key) ==
  CASE data.t = "null" -> [key |-> key, type |-> "null", value |-> data]
    [] data.t = "array" ->
         [key |-> key, type |-> "array", arrayLength |-> Len(data.items),
          children |-> [index \in 1..Len(data.items) |->
                          parseJsonStructure(data.items[index], DigitsOf(index - 1))]]
    [] data.t = "object" ->
         [key |-> key, type |-> "object",
          children |-> [n \in 1..Len(data.entries) |->
                          parseJsonStructure(data.entries[n].v, data.entries[n].k)]]
    [] data.t \in {"string", "number", "boolean"} ->
         [key |-> key, type |-> data.t, value |-> data]

RECURSIVE getNodeString(_)
getNodeString(node) ==
  IF node.type = "object" /\ "children" \in DOMAIN node
  THEN <<"{", " ">>
       \o Join([n \in 1..Len(node.children) |->
                  QuoteString(node.children[n].key) \o <<":", " ">>
                    \o getNodeString(node.children[n])], <<",", " ">>)
       \o <<" ", "}">>
  ELSE IF node.type = "array" /\ "children" \in DOMAIN node
  THEN <<"[">>
       \o Join([n \in 1..Len(node.children) |-> getNodeString(node.children[n])],
               <<",", " ">>)
       \o <<"]">>
  ELSE JSONstringify(node.value)

(***************************************************************************)
(* State                                                                   *)
(***************************************************************************)
VARIABLES
  jsonInput, jsonStructure, schemaError,                          \* schema explorer
  formatterInput, formatterOutput, formatterSource, formatterError,  \* formatter
  jsonlInput, jsonlOutput, jsonlSource, jsonlError,               \* JSONL builder
  input, result,                    \* one call of parseFlexibleJson
  value, lines,                     \* one call of toJsonLines
  scan,        \* the locals of splitTopLevel while it runs, or null
  data,        \* the value whose tree the schema explorer shows, or null
  inserted,    \* the keys of the object typed, in the order it lists them
  node,        \* the node of the tree last copied, or null
  clipboard    \* the text last copied, or null

pageVars ==
  <<jsonInput, jsonStructure, schemaError,
    formatterInput, formatterOutput, formatterSource, formatterError,
    jsonlInput, jsonlOutput, jsonlSource, jsonlError>>
callVars == <<value, lines, scan>>
parseVars == <<input, result, callVars>>
treeVars == <<data, inserted, node, clipboard>>
vars == <<pageVars, parseVars, treeVars>>

\* null, and a string held where null may be held
null == [null |-> TRUE]
Str(s) == [str |-> s]

pageInit ==
  /\ jsonInput = <<>> /\ jsonStructure = null /\ schemaError = null
  /\ formatterInput = <<>> /\ formatterOutput = <<>>
  /\ formatterSource = null /\ formatterError = null
  /\ jsonlInput = <<>> /\ jsonlOutput = <<>>
  /\ jsonlSource = null /\ jsonlError = null

callIdle == value = null /\ lines = null /\ scan = null

parseIdle == input = <<>> /\ result = null /\ callIdle

treeIdle == data = null /\ inserted = <<>> /\ node = null /\ clipboard = null

(***************************************************************************)
(* One call of parseFlexibleJson on a text of up to MaxLines lines         *)
(***************************************************************************)
MaxLines == 3

Lines ==
  {<<" ">>,
   <<"{", "\"", "a", "\"", ":", "1", "}">>,
   <<"{", "\"", "a", "\"", ":", "2", "}", "\r">>,
   <<"[", "1", ",">>,
   <<"1", "]">>,
   <<"{", "a", ":", "1", "}">>,
   <<"{", "a", ":", "/", "/", "}">>,
   <<"{", "}", "}">>,
   <<"{", "a", ",">>,
   <<"b", "}">>,
   <<"a">>,
   <<"/", "/">>}

Newline == <<"\n">>

Texts == {Join(ls, Newline) : ls \in UNION {[1..n -> Lines] : n \in 0..MaxLines}}

ParseInit == input \in Texts /\ result = null /\ callIdle /\ pageInit /\ treeIdle

callParseFlexibleJson ==
  /\ result = null
  /\ result' = parseFlexibleJson(input)
  /\ UNCHANGED <<input, callVars, pageVars, treeVars>>

ParseNext == callParseFlexibleJson

SpecParse == ParseInit /\ [][ParseNext]_vars

(***************************************************************************)
(* The page: the schema explorer, the formatter and the JSONL builder      *)
(***************************************************************************)
sampleJson ==
  <<"{", "\n", " ", " ", "\"", "u", "s", "e", "r", "\"", ":", " ", "{",
    "\n", " ", " ", " ", " ", "\"", "n", "a", "m", "e", "\"", ":", " ",
    "\"", "J", "o", "h", "n", " ", "D", "o", "e", "\"", ",", "\n", " ",
    " ", " ", " ", "\"", "a", "g", "e", "\"", ":", " ", "2", "8", ",",
    "\n", " ", " ", " ", " ", "\"", "i", "s", "S", "t", "u", "d", "e", "n",
    "t", "\"", ":", " ", "f", "a", "l", "s", "e", ",", "\n", " ", " ", " ",
    " ", "\"", "g", "r", "a", "d", "e", "s", "\"", ":", " ", "[", "8", "5",
    ",", " ", "9", "0", ",", " ", "9", "2", "]", ",", "\n", " ", " ", " ",
    " ", "\"", "a", "d", "d", "r", "e", "s", "s", "\"", ":", " ", "{",
    "\n", " ", " ", " ", " ", " ", " ", "\"", "s", "t", "r", "e", "e", "t",
    "\"", ":", " ", "\"", "1", "2", "3", " ", "M", "a", "i", "n", " ", "S",
    "t", "\"", ",", "\n", " ", " ", " ", " ", " ", " ", "\"", "c", "i",
    "t", "y", "\"", ":", " ", "\"", "A", "n", "y", "t", "o", "w", "n",
    "\"", ",", "\n", " ", " ", " ", " ", " ", " ", "\"", "z", "i", "p",
    "C", "o", "d", "e", "\"", ":", " ", "\"", "1", "2", "3", "4", "5",
    "\"", "\n", " ", " ", " ", " ", "}", ",", "\n", " ", " ", " ", " ",
    "\"", "h", "o", "b", "b", "i", "e", "s", "\"", ":", " ", "[", "\"",
    "r", "e", "a", "d", "i", "n", "g", "\"", ",", " ", "\"", "c", "y", "c",
    "l", "i", "n", "g", "\"", ",", " ", "\"", "p", "h", "o", "t", "o", "g",
    "r", "a", "p", "h", "y", "\"", "]", ",", "\n", " ", " ", " ", " ",
    "\"", "a", "c", "c", "o", "u", "n", "t", "B", "a", "l", "a", "n", "c",
    "e", "\"", ":", " ", "1", "2", "3", "4", ".", "5", "6", ",", "\n", " ",
    " ", " ", " ", "\"", "l", "a", "s", "t", "L", "o", "g", "i", "n", "\"",
    ":", " ", "\"", "2", "0", "2", "3", "-", "0", "5", "-", "1", "5", "T",
    "1", "4", ":", "3", "0", ":", "0", "0", "Z", "\"", ",", "\n", " ", " ",
    " ", " ", "\"", "p", "r", "o", "f", "i", "l", "e", "P", "i", "c", "t",
    "u", "r", "e", "\"", ":", " ", "n", "u", "l", "l", "\n", " ", " ", "}",
    "\n", "}">>

\* what is typed or pasted into a text area
PageTexts ==
  {<<>>,
   <<"{", "\"", "a", "\"", ":", "1", "}">>,
   <<"{", "a", ":", "1", "}", "\n", "{", "b", "}">>,
   <<"a">>}

VisualizeMessage == "We couldn't parse that JSON."

setJsonInput(text) ==
  /\ jsonInput' = text
  /\ UNCHANGED <<jsonStructure, schemaError,
                 formatterInput, formatterOutput, formatterSource, formatterError,
                 jsonlInput, jsonlOutput, jsonlSource, jsonlError,
                 parseVars, treeVars>>

setFormatterInput(text) ==
  /\ formatterInput' = text
  /\ UNCHANGED <<jsonInput, jsonStructure, schemaError,
                 formatterOutput, formatterSource, formatterError,
                 jsonlInput, jsonlOutput, jsonlSource, jsonlError,
                 parseVars, treeVars>>

setJsonlInput(text) ==
  /\ jsonlInput' = text
  /\ UNCHANGED <<jsonInput, jsonStructure, schemaError,
                 formatterInput, formatterOutput, formatterSource, formatterError,
                 jsonlOutput, jsonlSource, jsonlError,
                 parseVars, treeVars>>

\* the two ways out of handleVisualize, parsed being JSON.parse(jsonInput)
showStructure(parsed) ==
  /\ IF parsed.ok
     THEN /\ data' = parsed.v
          /\ jsonStructure' = parseJsonStructure(parsed.v, RootKey)
          /\ schemaError' = null
     ELSE /\ data' = null
          /\ schemaError' = Str(VisualizeMessage)
          /\ jsonStructure' = null
  /\ UNCHANGED <<jsonInput,
                 formatterInput, formatterOutput, formatterSource, formatterError,
                 jsonlInput, jsonlOutput, jsonlSource, jsonlError,
                 parseVars, inserted, node, clipboard>>

\* what JSON.parse would give, were it to read all that parseFlexibleJson reads
flexibleAsStrict(parsed) ==
  IF parsed.ok THEN [ok |-> TRUE, v |-> parsed.data] ELSE [ok |-> FALSE]

\* handleVisualize reading the text with parseFlexibleJson
handleVisualizeFlexible ==
  showStructure(flexibleAsStrict(parseFlexibleJson(jsonInput)))

handleVisualize == showStructure(JSONparse(jsonInput))

handleLoadSample ==
  /\ jsonInput' = sampleJson
  /\ jsonStructure' = null
  /\ data' = null
  /\ schemaError' = null
  /\ UNCHANGED <<formatterInput, formatterOutput, formatterSource, formatterError,
                 jsonlInput, jsonlOutput, jsonlSource, jsonlError,
                 parseVars, inserted, node, clipboard>>

\* the nodes of a tree: each is drawn by a JsonTreeView of its own
RECURSIVE Nodes(_)
Nodes(tree) ==
  IF tree = null THEN {}
  ELSE IF "children" \in DOMAIN tree
  THEN {tree} \cup UNION {Nodes(tree.children[n]) : n \in 1..Len(tree.children)}
  ELSE {tree}

\* a click on the node n of the tree shown
handleCopyNode(n) ==
  /\ n \in Nodes(jsonStructure)
  /\ node' = n
  /\ clipboard' = Str(getNodeString(n))
  /\ UNCHANGED <<pageVars, parseVars, data, inserted>>

\* the two ways out of handleFormat, parsed being what parseFlexibleJson gave
showFormatted(parsed) ==
  /\ IF parsed.ok
     THEN /\ formatterOutput' = prettyPrint(parsed.data)
          /\ formatterSource' = Str(parsed.source)
          /\ formatterError' = null
     ELSE /\ formatterError' = Str(parsed.message)
          /\ formatterOutput' = <<>>
          /\ formatterSource' = null
  /\ UNCHANGED <<jsonInput, jsonStructure, schemaError, formatterInput,
                 jsonlInput, jsonlOutput, jsonlSource, jsonlError,
                 parseVars, treeVars>>

handleFormat == showFormatted(parseFlexibleJson(formatterInput))

\* the try block of handleJsonl up to its setters: what was parsed, with the
\* lines of it, or the error that parseFlexibleJson or toJsonLines threw
emitted(parsed, emit) ==
  IF emit.ok THEN [ok |-> TRUE, output |-> Join(emit.lines, Newline),
                   source |-> parsed.source]
  ELSE [ok |-> FALSE, message |-> emit.message]

convert(parsed) ==
  IF parsed.ok THEN emitted(parsed, toJsonLines(parsed.data))
  ELSE [ok |-> FALSE, message |-> parsed.message]

\* showJsonl that leaves the earlier output in place when the conversion fails
showJsonlKeepingOutput(done) ==
  /\ IF done.ok
     THEN /\ jsonlOutput' = done.output
          /\ jsonlSource' = Str(done.source)
          /\ jsonlError' = null
     ELSE /\ jsonlError' = Str(done.message)
          /\ UNCHANGED <<jsonlOutput, jsonlSource>>
  /\ UNCHANGED <<jsonInput, jsonStructure, schemaError,
                 formatterInput, formatterOutput, formatterSource, formatterError,
                 jsonlInput, parseVars, treeVars>>

\* the two ways out of handleJsonl, done being what its try block came to
showJsonl(done) ==
  /\ IF done.ok
     THEN /\ jsonlOutput' = done.output
          /\ jsonlSource' = Str(done.source)
          /\ jsonlError' = null
     ELSE /\ jsonlError' = Str(done.message)
          /\ jsonlOutput' = <<>>
          /\ jsonlSource' = null
  /\ UNCHANGED <<jsonInput, jsonStructure, schemaError,
                 formatterInput, formatterOutput, formatterSource, formatterError,
                 jsonlInput, parseVars, treeVars>>

handleJsonl == showJsonl(convert(parseFlexibleJson(jsonlInput)))

Init == pageInit /\ parseIdle /\ treeIdle

Next ==
  \/ \E text \in PageTexts : setJsonInput(text)
  \/ \E text \in PageTexts : setFormatterInput(text)
  \/ \E text \in PageTexts : setJsonlInput(text)
  \/ handleVisualize
  \/ handleLoadSample
  \/ handleFormat
  \/ handleJsonl

Spec == Init /\ [][Next]_vars

(***************************************************************************)
(* The schema explorer on one JSON document: an array or an object of up   *)
(* to MaxItems items, or one item alone                                    *)
(***************************************************************************)
MaxItems == 2

ItemTexts ==
  {<<"n", "u", "l", "l">>,
   <<"1", "e", "4", "0", "0">>,
   <<"-", "1", ".", "5", "0">>,
   <<"\"", "q", "\\", "\"", "\\", "n", "\"">>,
   <<"{", "\"", "0", "\"", ":", "[", "{", "}", ",", "t", "r", "u", "e", "]", "}">>}

DocKeys ==
  {<<"b", "\"">>, <<"1", "0">>, <<"9">>, <<"0", "1">>}

ArrayText(items) == <<"[">> \o Join(items, <<",">>) \o <<"]">>

ObjectText(keys, items) ==
  <<"{">>
    \o Join([n \in 1..Len(keys) |-> QuoteString(keys[n]) \o <<":">> \o items[n]],
            <<",">>)
    \o <<"}">>

Docs ==
  {[text |-> item, keys |-> <<>>] : item \in {i \in ItemTexts : i[1] # "{"}}
    \cup UNION {{[text |-> ArrayText(items), keys |-> <<>>] :
                   items \in [1..n -> ItemTexts]} : n \in 0..MaxItems}
    \cup UNION {{[text |-> ObjectText(keys, items), keys |-> keys] :
                   keys \in [1..n -> DocKeys], items \in [1..n -> ItemTexts]} :
                 n \in 0..MaxItems}

TreeInit ==
  /\ \E doc \in Docs : jsonInput = doc.text /\ inserted = doc.keys
  /\ jsonStructure = null /\ schemaError = null
  /\ formatterInput = <<>> /\ formatterOutput = <<>>
  /\ formatterSource = null /\ formatterError = null
  /\ jsonlInput = <<>> /\ jsonlOutput = <<>>
  /\ jsonlSource = null /\ jsonlError = null
  /\ parseIdle
  /\ data = null /\ node = null /\ clipboard = null

TreeNext ==
  \/ handleVisualize
  \/ \E n \in Nodes(jsonStructure) : handleCopyNode(n)

SpecTree == TreeInit /\ [][TreeNext]_vars

(***************************************************************************)
(* One call of toJsonLines on an array of up to MaxItems items, or on one   *)
(* item alone                                                              *)
(***************************************************************************)
\* texts of items as the JSONL builder takes them
LineItemTexts ==
  {<<"{", "\"", "a", "\"", ":", "1", "}">>,
   <<"{", "\"", "a", "\"", ":", "2", "}">>,
   <<"1", ".", "5">>,
   <<"\"", "x", ",", "\\", "\"", "\"">>,
   <<"n", "u", "l", "l">>,
   <<"[", "1", ",", "n", "u", "l", "l", "]">>,
   <<"I", "n", "f", "i", "n", "i", "t", "y">>,
   <<"N", "a", "N">>,
   <<"t", "r", "u", "e">>}

\* the items an array can hold: what the parsers make of those texts, and
\* undefined
LineItems == {JSON5parse(text).v : text \in LineItemTexts} \cup {UndefinedV}

LineValues ==
  (LineItems \ {UndefinedV})
    \cup UNION {{ArrV(items) : items \in [1..n -> LineItems]} : n \in 0..MaxItems}

LinesInit ==
  /\ value \in LineValues /\ lines = null /\ scan = null
  /\ input = <<>> /\ result = null
  /\ pageInit /\ treeIdle

callToJsonLines ==
  /\ lines = null
  /\ lines' = toJsonLines(value)
  /\ UNCHANGED <<value, scan, input, result, pageVars, treeVars>>

LinesNext == callToJsonLines

SpecLines == LinesInit /\ [][LinesNext]_vars

(***************************************************************************)
(* One call of splitTopLevel, turn by turn of its loop, on the interior of *)
(* an object literal: a text of up to MaxScan characters, or one of a few   *)
(* longer ones                                                             *)
(***************************************************************************)
MaxScan == 3

SplitChars == {"a", ",", "\"", "'", "\\", "{", "]", " "}

LongerTexts ==
  {<<"a", ":", "\"", "x", ",", "y", "\"", ",", " ", "b", ":", " ", "{", "c", ":", " ", "1", ",", "2", "}">>,
   <<"\"", "\\", "\"", ",", "\"", ",", "a">>,
   <<Backquote, ",", "'", Backquote, ",", "(", "a", ",", "}", ")", ",", ")">>}

\* parseLooseObjectLiteral hands over the interior trimmed, and only when it is
\* not empty
SplitInputs ==
  {text \in LongerTexts \cup UNION {[1..n -> SplitChars] : n \in 1..MaxScan} :
     text # <<>> /\ trim(text) = text}

\* the locals as the loop is entered; i counts from 1 where the code counts
\* from 0
SplitInit ==
  /\ input \in SplitInputs
  /\ scan = [i |-> 1] @@ splitInit
  /\ result = null /\ value = null /\ lines = null
  /\ pageInit /\ treeIdle

\* one turn of the for loop
splitTurn ==
  /\ result = null
  /\ scan.i <= Len(input)
  /\ scan' = [splitStep(scan, input[scan.i],
                        IF scan.i > 1 THEN input[scan.i - 1] ELSE NoChar)
                EXCEPT !.i = @ + 1]
  /\ UNCHANGED <<input, result, value, lines, pageVars, treeVars>>

\* the loop is over: the final part, and the return
splitReturn ==
  /\ result = null
  /\ scan.i > Len(input)
  /\ result' = [parts |-> finalParts(scan)]
  /\ UNCHANGED <<input, scan, value, lines, pageVars, treeVars>>

SplitNext == splitTurn \/ splitReturn

SpecSplit == SplitInit /\ [][SplitNext]_vars

\* the loop runs to its end: no turn waits on anything
SpecSplitFair == SpecSplit /\ WF_vars(SplitNext)

(***************************************************************************)
(* One call of parseLooseObjectLiteral on an object literal of up to        *)
(* MaxItems segments, or on a text without its braces                      *)
(***************************************************************************)
SegmentTexts ==
  {<<" ", "n", "a", "m", "e", ":", " ", "A", "d", "a">>,
   <<" ", "a", "c", "t", "i", "v", "e", " ">>,
   <<"_", "_", "p", "r", "o", "t", "o", "_", "_">>,
   <<"(", "a", ":", ",">>,
   <<"a", ":", " ", "0", "0", "7">>,
   <<"a", ":", " ", "\"", "x">>,
   <<"\"", "a", "\"", ":", " ", "{", "x", ":", "1", "}">>,
   <<":", " ", "1">>,
   <<"'", "'">>,
   <<>>,
   <<"b", ":">>,
   <<"a", ":", " ", "\"", "x", ",", "y", "\"">>,
   <<"a", ":", " ", "(", "x", " ", ",">>}

LooseInputs ==
  {<<"{", "a", ":", " ", "0", "0", "7", "}", "\n", "{", ":", " ", "1", "}">>,
   <<"a">>,
   <<"{", "a">>,
   <<"a", ":", " ", "1", "}">>,
   <<" ", "{", "a", ":", " ", "0", "x", "1", "F", "}", " ">>}
    \cup UNION {{<<"{">> \o Join(segments, <<",">>) \o <<"}">> :
                   segments \in [1..n -> SegmentTexts]} : n \in 0..MaxItems}

LooseInit ==
  /\ input \in LooseInputs /\ result = null /\ callIdle
  /\ pageInit /\ treeIdle

callParseLooseObjectLiteral ==
  /\ result = null
  /\ result' = parseLooseObjectLiteral(input)
  /\ UNCHANGED <<input, callVars, pageVars, treeVars>>

LooseNext == callParseLooseObjectLiteral

SpecLoose == LooseInit /\ [][LooseNext]_vars

(***************************************************************************)
(* Properties of parseFlexibleJson                                         *)
(***************************************************************************)
\* the records of a text, read off the places of its line feeds: the text
\* between two neighbouring line feeds, trimmed, when that is not empty
Breaks(s) == {0, Len(s) + 1} \cup {i \in 1..Len(s) : s[i] = "\n"}

NextBreak(s, b) == CHOOSE n \in Breaks(s) : n > b /\ \A m \in Breaks(s) : m > b => n <= m

Between(s, b) == trim(SubSeq(s, b + 1, NextBreak(s, b) - 1))

RecordStarts(s) == {b \in Breaks(s) \ {Len(s) + 1} : Between(s, b) # <<>>}

RecordsOf(s) ==
  [k \in 1..Cardinality(RecordStarts(s)) |->
     Between(s, CHOOSE b \in RecordStarts(s) :
                  Cardinality({c \in RecordStarts(s) : c < b}) = k - 1)]

BlankInside(s) ==
  \E b \in Breaks(s) \ {0, Len(s) + 1} :
    /\ Between(s, b) = <<>>
    /\ NextBreak(s, b) # Len(s) + 1

LineParses(line) ==
  \/ JSONparse(line).ok
  \/ JSON5parse(line).ok
  \/ parseLooseObjectLiteral(line).success

LineValue(line) ==
  IF JSONparse(line).ok THEN JSONparse(line).v
  ELSE IF JSON5parse(line).ok THEN JSON5parse(line).v
  ELSE parseLooseObjectLiteral(line).data

AllLinesParse(s) == \A k \in 1..Len(RecordsOf(s)) : LineParses(RecordsOf(s)[k])

LinesCommit(s) == Len(RecordsOf(s)) > 1 /\ AllLinesParse(s)

Called == result # null

\* what the call reports: the dialect and the value, or the failure
Outcome(r) ==
  IF r.ok THEN [ok |-> TRUE, source |-> r.source, data |-> r.data]
  ELSE [ok |-> FALSE]

\* JSON5, then the loose object parser, on the whole text
WholeOutcome(s) ==
  IF JSON5parse(s).ok
  THEN [ok |-> TRUE, source |-> "json5", data |-> JSON5parse(s).v]
  ELSE IF parseLooseObjectLiteral(s).success
  THEN [ok |-> TRUE, source |-> "loose-object", data |-> parseLooseObjectLiteral(s).data]
  ELSE [ok |-> FALSE]

\* C1: a text whose trimmed form is strict JSON is reported as source "json"
\* with the value JSON.parse gives for the text, on one line or several
C1_StrictJsonFirst ==
  (Called /\ JSONparse(trim(input)).ok) =>
    /\ result.ok
    /\ result.source = "json"
    /\ JSONparse(input).ok
    /\ result.data = JSONparse(input).v

C1_Witness ==
  /\ Called
  /\ JSONparse(trim(input)).ok
  /\ Len(RecordsOf(input)) > 1
  /\ input # trim(input)

\* C2: the dialect reported is that of the first attempt to succeed in the
\* order strict JSON, JSON Lines, JSON5, loose object; the attempts are made
\* in that order and the call fails only when none succeeds
C2_FirstSuccessWins ==
  Called /\ trim(input) # <<>> =>
    LET t == trim(input)
        json == JSONparse(t).ok
        jsonl == LinesCommit(t)
        json5 == JSON5parse(t).ok
        loose == parseLooseObjectLiteral(t).success
    IN /\ result.ok <=> (json \/ jsonl \/ json5 \/ loose)
       /\ result.ok =>
            /\ result.source = "json" <=> json
            /\ result.source = "jsonl" <=> (~json /\ jsonl)
            /\ result.source = "json5" <=> (~json /\ ~jsonl /\ json5)
            /\ result.source = "loose-object" <=> (~json /\ ~jsonl /\ ~json5 /\ loose)
            /\ result.source = result.tried[Len(result.tried)]
       /\ result.tried \in
            {<<"json">>, <<"json", "jsonl">>, <<"json", "json5">>,
             <<"json", "jsonl", "json5">>, <<"json", "json5", "loose-object">>,
             <<"json", "jsonl", "json5", "loose-object">>}

C2_Witness ==
  /\ Called
  /\ result.ok
  /\ result.source = "jsonl"
  /\ JSON5parse(trim(input)).ok

\* C3: a text that is not strict JSON and whose two or more non-empty lines
\* all parse is reported as "jsonl" with one element per non-empty line, in
\* the order of the lines, each the value of its line
C3_LinesInOrder ==
  (Called /\ ~JSONparse(trim(input)).ok /\ LinesCommit(trim(input))) =>
    LET records == RecordsOf(trim(input)) IN
    /\ result.ok
    /\ result.source = "jsonl"
    /\ result.data.t = "array"
    /\ Len(result.data.items) = Len(records)
    /\ \A k \in 1..Len(records) : result.data.items[k] = LineValue(records[k])

C3_Witness ==
  /\ Called
  /\ ~JSONparse(trim(input)).ok
  /\ LinesCommit(trim(input))
  /\ BlankInside(trim(input))
  /\ \E j, k \in 1..Len(result.data.items) :
       result.data.items[j] # result.data.items[k]

\* C4 as stated: when some non-empty line parses under none of the three
\* line parsers, the outcome is that of JSON5 and then the loose object
\* parser on the whole trimmed text
C4_AsStated ==
  (Called /\ ~AllLinesParse(trim(input))) =>
    Outcome(result) = WholeOutcome(trim(input))

\* C4: when the trimmed text is not strict JSON and some non-empty line
\* parses under none of the three line parsers, "jsonl" is not reported and
\* the outcome is that of JSON5 and then the loose object parser on the whole
\* trimmed text
C4_AllOrNothing ==
  (Called /\ ~JSONparse(trim(input)).ok /\ ~AllLinesParse(trim(input))) =>
    /\ Outcome(result) = WholeOutcome(trim(input))
    /\ result.ok => result.source # "jsonl"

C4_Witness ==
  /\ Called
  /\ ~JSONparse(trim(input)).ok
  /\ ~AllLinesParse(trim(input))
  /\ \E k \in 1..Len(RecordsOf(trim(input))) : LineParses(RecordsOf(trim(input))[k])
  /\ result.ok
  /\ result.source = "loose-object"

\* C5: a text that is empty once trimmed fails with the message for an empty
\* input, with no value and no dialect, and with no parser tried
C5_EmptyInputFails ==
  (Called /\ trim(input) = <<>>) =>
    /\ ~result.ok
    /\ result.message = EmptyMessage
    /\ result.tried = <<>>
    /\ DOMAIN result \cap {"data", "source"} = {}

C5_Witness ==
  /\ Called
  /\ trim(input) = <<>>
  /\ input # <<>>

(***************************************************************************)
(* Properties of the page                                                  *)
(***************************************************************************)
\* C6: no panel holds an error together with a result: an error in the
\* schema explorer goes with no tree, an error in the formatter with an empty
\* output and no source, an error in the JSONL builder likewise
C6_NoErrorWithResult ==
  /\ schemaError # null => jsonStructure = null
  /\ formatterError # null => (formatterOutput = <<>> /\ formatterSource = null)
  /\ jsonlError # null => (jsonlOutput = <<>> /\ jsonlSource = null)

C6_Witness ==
  /\ schemaError # null
  /\ formatterError # null
  /\ jsonlError # null
  /\ jsonStructure = null
  /\ formatterOutput = <<>>
  /\ jsonlOutput = <<>>

\* a step of handleVisualize; it leaves the text as typed
VisualizeStep == jsonInput' = jsonInput /\ handleVisualize

\* C7 as stated: Visualize on a text parseFlexibleJson accepts shows the tree
\* of the value parseFlexibleJson gives, and no error
C7_AsStated ==
  [][VisualizeStep =>
       LET flexible == parseFlexibleJson(jsonInput) IN
       flexible.ok =>
         /\ schemaError' = null
         /\ jsonStructure' = parseJsonStructure(flexible.data, RootKey)]_vars

\* C7: Visualize on a text that is strict JSON as typed shows the tree of the
\* value parseFlexibleJson gives, which reports it as "json", and no error; on
\* any other text, those parseFlexibleJson accepts under a looser dialect
\* included, it shows an error and no tree
C7_VisualizeStrictOnly ==
  [][VisualizeStep =>
       LET flexible == parseFlexibleJson(jsonInput) IN
       IF JSONparse(jsonInput).ok
       THEN /\ flexible.ok
            /\ flexible.source = "json"
            /\ schemaError' = null
            /\ jsonStructure' = parseJsonStructure(flexible.data, RootKey)
       ELSE /\ schemaError' # null
            /\ jsonStructure' = null]_vars

C7_Witness ==
  /\ parseFlexibleJson(jsonInput).ok
  /\ parseFlexibleJson(jsonInput).source = "jsonl"
  /\ schemaError # null
  /\ jsonStructure = null
  /\ formatterInput = jsonInput
  /\ formatterSource = Str("jsonl")

(***************************************************************************)
(* Properties of the tree                                                  *)
(***************************************************************************)
\* C8: the text copied from the root of the tree of a value decoded from
\* strict JSON is strict JSON and decodes to a value deeply equal to it
C8_RoundTrip ==
  (jsonStructure # null /\ clipboard # null /\ node = jsonStructure) =>
    /\ JSONparse(clipboard.str).ok
    /\ DeepEqual(JSONparse(clipboard.str).v, data)

Present(n, field) == field \in DOMAIN n

TreeNodeInvariant(n) ==
  /\ ~(Present(n, "value") /\ Present(n, "children"))
  /\ Present(n, "value") => n.type \in {"string", "number", "boolean", "null"}
  /\ Present(n, "children") => n.type \in {"object", "array"}
  /\ Present(n, "arrayLength") => n.type = "array"

\* C9: every node of the tree shown, at every depth, has a value or children
\* but never both, a value only when its type is string, number, boolean or
\* null, children only when its type is object or array, and an arrayLength
\* only when its type is array
C9_TreeNodeInvariant ==
  \A n \in Nodes(jsonStructure) : TreeNodeInvariant(n)

C9_Witness ==
  /\ jsonStructure # null
  /\ Cardinality({n.type : n \in Nodes(jsonStructure)}) >= 4
  /\ \E n \in Nodes(jsonStructure) : n.type = "object" /\ n.children = <<>>
  /\ \E n \in Nodes(jsonStructure) : n.type = "array" /\ n.arrayLength = MaxItems
  /\ \E n \in Nodes(jsonStructure) : n.type = "null"

\* the keys of a text in the order of their first appearance
RECURSIVE FirstAppearances(_)
FirstAppearances(keys) ==
  IF keys = <<>> THEN <<>>
  ELSE LET front == SubSeq(keys, 1, Len(keys) - 1)
           last == keys[Len(keys)]
       IN IF \E i \in 1..Len(front) : front[i] = last
          THEN FirstAppearances(front)
          ELSE Append(FirstAppearances(front), last)

IndexBefore(a, b) == IndexValue(a) < IndexValue(b)

NotArrayIndex(k) == ~IsArrayIndex(k)

\* the order in which an object lists its properties: the keys that are
\* array indices by ascending value, then the others as first inserted
PropertyOrder(keys) ==
  SortSeq(SelectSeq(FirstAppearances(keys), IsArrayIndex), IndexBefore)
    \o SelectSeq(FirstAppearances(keys), NotArrayIndex)

ChildKeys(n) == [i \in 1..Len(n.children) |-> n.children[i].key]

\* the tree of an array has one child for each item, in order, keyed by the
\* decimal of the item's index from zero
ArrayMirrored ==
  data.t = "array" =>
    /\ jsonStructure.type = "array"
    /\ jsonStructure.arrayLength = Len(data.items)
    /\ Len(jsonStructure.children) = Len(data.items)
    /\ \A i \in 1..Len(data.items) :
         LET child == jsonStructure.children[i] IN
         /\ IsArrayIndex(child.key)
         /\ IndexValue(child.key) = i - 1
         /\ child = parseJsonStructure(data.items[i], child.key)

\* the tree of an object has one child for each property, keyed by its name,
\* in the order given
ObjectMirrored(order) ==
  data.t = "object" =>
    /\ jsonStructure.type = "object"
    /\ Len(jsonStructure.children) = Len(data.entries)
    /\ ChildKeys(jsonStructure) = order
    /\ \A i \in 1..Len(jsonStructure.children) :
         LET child == jsonStructure.children[i] IN
         /\ HasKey(data.entries, child.key)
         /\ child = parseJsonStructure(ObjGet(data.entries, child.key), child.key)

\* C10 as stated: the children mirror the value one for one, those of an
\* object in the order its keys were inserted
C10_AsStated ==
  jsonStructure # null =>
    (ArrayMirrored /\ ObjectMirrored(FirstAppearances(inserted)))

\* C10: the children mirror the value one for one, those of an object in the
\* order the object lists its properties: keys that are array indices by
\* ascending value, then the other keys in insertion order
C10_ChildrenMirrorValue ==
  jsonStructure # null =>
    (ArrayMirrored /\ ObjectMirrored(PropertyOrder(inserted)))

C10_Witness ==
  /\ jsonStructure # null
  /\ data.t = "object"
  /\ Len(jsonStructure.children) = MaxItems
  /\ PropertyOrder(inserted) # FirstAppearances(inserted)


(***************************************************************************)
(* Properties of toJsonLines                                               *)
(***************************************************************************)
\* a value that some JSON text stands for
RECURSIVE HasJsonEncoding(_)
HasJsonEncoding(v) ==
  CASE v.t \in {"null", "boolean", "string"} -> TRUE
    [] v.t = "number" -> IsFinite(v)
    [] v.t = "array" -> \A i \in 1..Len(v.items) : HasJsonEncoding(v.items[i])
    [] v.t = "object" -> \A i \in 1..Len(v.entries) : HasJsonEncoding(v.entries[i].v)
    [] OTHER -> FALSE

\* a line is the compact JSON encoding of an item: one line of JSON text that
\* JSON.parse reads back as the item, and the text JSON.stringify gives
CompactEncoding(line, item) ==
  /\ line = JSONstringify(item)
  /\ \A k \in 1..Len(line) : line[k] # "\n"
  /\ LET back == JSONparse(line) IN back.ok /\ DeepEqual(back.v, item)

Unencodable(items) == {i \in 1..Len(items) : ~HasJsonEncoding(items[i])}

\* C11: of an array of n items that all have a JSON encoding, toJsonLines
\* returns exactly n lines, the i-th the compact JSON encoding of the i-th item;
\* of the empty array it returns no line
C11_OneLinePerItem ==
  (lines # null /\ value.t = "array" /\ Unencodable(value.items) = {})
    => /\ lines.ok
       /\ Len(lines.lines) = Len(value.items)
       /\ \A i \in 1..Len(value.items) : CompactEncoding(lines.lines[i], value.items[i])

\* [{"a":1},{"a":2}] has come out as the two lines {"a":1} and {"a":2}
C11_Witness ==
  /\ value = JSON5parse(<<"[", "{", "\"", "a", "\"", ":", "1", "}", ",", "{", "\"", "a", "\"", ":", "2", "}", "]">>).v
  /\ lines = Returned(<<<<"{", "\"", "a", "\"", ":", "1", "}">>,
                        <<"{", "\"", "a", "\"", ":", "2", "}">>>>)

\* C12: of an array with an item that has no JSON encoding toJsonLines throws
\* the error that names the index of the first such item, and returns no lines
C12_UnencodableItemThrows ==
  (lines # null /\ value.t = "array" /\ Unencodable(value.items) # {})
    => /\ ~lines.ok
       /\ lines.index + 1 \in Unencodable(value.items)


(***************************************************************************)
(* Properties of splitTopLevel                                             *)
(***************************************************************************)
\* a turn of the loop, and the character it reads and the one before it
Turn == scan'.i = scan.i + 1
Char == input[scan.i]
PrevChar == IF scan.i > 1 THEN input[scan.i - 1] ELSE NoChar

\* the turn cuts: the current segment goes to the parts and a new one begins
Cuts == scan'.parts = Append(scan.parts, trim(scan.current)) /\ scan'.current = <<>>

\* the turn keeps the character in the current segment
Keeps == scan'.parts = scan.parts /\ scan'.current = Append(scan.current, Char)

ExampleInput == <<"a", ":", "\"", "x", ",", "y", "\"", ",", " ", "b", ":", " ", "{", "c", ":", " ", "1", ",", "2", "}">>

\* C13: a turn of the scan cuts exactly when it reads a comma at depth 0
\* outside a string literal, and keeps every other character, commas included,
\* in the current segment; a:"x,y", b: {c: 1,2} comes out as the two segments
\* a:"x,y" and b: {c: 1,2}
C13_CutsAtTopLevelCommas ==
  /\ [][Turn => IF Char = "," /\ scan.depth = 0 /\ ~scan.inString
                THEN Cuts ELSE Keeps]_vars
  /\ []((input = ExampleInput /\ result # null)
          => result.parts = <<<<"a", ":", "\"", "x", ",", "y", "\"">>,
                              <<"b", ":", " ", "{", "c", ":", " ", "1", ",", "2", "}">>>>)

\* the example has been split in two
C13_Witness ==
  /\ input = ExampleInput
  /\ result # null
  /\ Len(result.parts) = 2

Escaped == PrevChar = "\\"

\* inside a string literal a turn changes neither the depth nor the parts, and
\* leaves the literal exactly on its own quote character not preceded by a
\* backslash
InsideLiteral ==
  /\ scan'.depth = scan.depth
  /\ Keeps
  /\ scan'.inString = ~(Char = scan.stringChar /\ ~Escaped)
  /\ scan'.inString => scan'.stringChar = scan.stringChar

\* C15 as stated: a turn enters a string literal only on a quote character
\* that no backslash precedes
C15_AsStated ==
  [][(Turn /\ ~scan.inString /\ scan'.inString) => (Char \in Quote /\ ~Escaped)]_vars

\* C15: outside a string literal a turn enters one exactly when it reads a
\* quote character, a backslash before it or not, and that character is the
\* one that ends the literal; inside one, a turn leaves it only on the same
\* quote character not preceded by a backslash, and a different quote
\* character, a bracket or a comma changes neither the mode nor the depth
C15_StringMode ==
  [][Turn => IF scan.inString THEN InsideLiteral
             ELSE /\ scan'.inString = (Char \in Quote)
                  /\ scan'.inString => scan'.stringChar = Char]_vars

\* a quote character after a backslash has opened a literal, and the comma
\* after it has been kept inside it
C15_Witness ==
  /\ scan.i = 4
  /\ input[1] = "\\" /\ input[2] = "\"" /\ input[3] = ","
  /\ scan.inString /\ scan.stringChar = "\""
  /\ scan.parts = <<>> /\ scan.depth = 0

Openers == {"{", "[", "("}
Closers == {"}", "]", ")"}

\* C16: the depth is never below 0; outside a string literal each of { [ (
\* adds 1 to it and each of } ] ) takes 1 from it unless it is 0, whatever
\* bracket opened; nothing else changes it, so that a comma that follows
\* nothing but closers is read at depth 0 and cuts
C16_DepthNeverNegative ==
  /\ [](scan.depth >= 0)
  /\ [][(Turn /\ ~scan.inString)
          => scan'.depth = IF Char \in Openers THEN scan.depth + 1
                           ELSE IF Char \in Closers /\ scan.depth > 0
                           THEN scan.depth - 1
                           ELSE scan.depth]_vars
  /\ [][(Turn /\ Char = "," /\ \A k \in 1..(scan.i - 1) : input[k] \in Closers)
          => Cuts]_vars

\* a closer that nothing opened has been read, and the comma after it has cut
C16_Witness ==
  /\ scan.i = 3
  /\ input[1] = "]" /\ input[2] = ","
  /\ scan.depth = 0
  /\ scan.parts = <<<<"]">>>>

Trimmed == trim(input)
Braced == At(Trimmed, 1) = "{" /\ At(Trimmed, Len(Trimmed)) = "}"
Interior == trim(SubSeq(Trimmed, 2, Len(Trimmed) - 1))
Segments == IF Interior = <<>> THEN <<>> ELSE splitTopLevel(Interior)
NonEmptySegments == {n \in 1..Len(Segments) : Segments[n] # <<>>}
Colon(n) == IndexOf(Segments[n], ":", 1)
KeyOf(n) ==
  StripTrailingQuote(StripLeadingQuote(trim(
    IF Colon(n) = 0 THEN Segments[n] ELSE SubSeq(Segments[n], 1, Colon(n) - 1))))
AfterColon(n) == From(Segments[n], Colon(n) + 1)

\* the segments that say what their key maps to: no later one has the key
Deciding ==
  {n \in NonEmptySegments : \A later \in NonEmptySegments : later > n => KeyOf(later) # KeyOf(n)}

Mapping == result.data.entries
KeysOf(entries) == {entries[i].k : i \in 1..Len(entries)}

\* C14: on success the mapping has exactly one entry for each sanitized key of
\* a non-empty segment and no other; a segment without a colon maps its key to
\* null; { name: Ada, active } gives {name: "Ada", active: null}
C14_OneEntryPerKey ==
  (result # null /\ result.success) =>
    /\ KeysOf(Mapping) = {KeyOf(n) : n \in NonEmptySegments}
    /\ Cardinality(KeysOf(Mapping)) = Len(Mapping)
    /\ \A n \in Deciding : Colon(n) = 0 => ObjGet(Mapping, KeyOf(n)) = NullV
    /\ input = <<"{", " ", "n", "a", "m", "e", ":", " ", "A", "d", "a", ",", " ", "a", "c", "t", "i", "v", "e", " ", "}">>
         => Mapping = <<[k |-> <<"n", "a", "m", "e">>, v |-> StrV(<<"A", "d", "a">>)],
                        [k |-> <<"a", "c", "t", "i", "v", "e">>, v |-> NullV]>>

\* C18: the raw value of a segment with a colon is the text after the first
\* colon, one trailing comma stripped and then trimmed; an empty raw value
\* maps the key to null, any other is what the decoding stages make of it
C18_RawValue ==
  (result # null /\ result.success) =>
    \A n \in Deciding :
      (Colon(n) > 0 /\ KeyOf(n) # ProtoKey) =>
        LET rawValue == trim(StripTrailingComma(AfterColon(n)))
        IN ObjGet(Mapping, KeyOf(n)) = IF rawValue = <<>> THEN NullV
                                       ELSE readValue(rawValue)

\* the text that is decoded: the text after the colon trimmed, less one
\* trailing comma
ValueText(n) == StripTrailingComma(trim(AfterColon(n)))

\* a text with at most one quote character taken off each end
Unquoted(text) ==
  LET a == IF At(text, 1) \in Quote THEN 1 ELSE 0
      b == IF Len(text) > a /\ At(text, Len(text)) \in Quote THEN 1 ELSE 0
  IN SubSeq(text, 1 + a, Len(text) - b)

Decoded(text, v) ==
  IF JSONparse(text).ok THEN v = JSONparse(text).v
  ELSE IF JSON5parse(text).ok THEN v = JSON5parse(text).v
  ELSE IF StringToNumber(text) # NaN THEN v = StringToNumber(text)
  ELSE v = StrV(Unquoted(text))

\* C19: a value text that is not empty is decoded by the first of strict
\* JSON, JSON5, Number and the bare string that succeeds, the bare string
\* being the text less at most one quote character at each end; the value
\* text never makes the call fail
C19_DecodingOrder ==
  result # null =>
    /\ (Braced /\ \A n \in NonEmptySegments : KeyOf(n) # <<>>) => result.success
    /\ result.success =>
         \A n \in Deciding :
           (Colon(n) > 0 /\ KeyOf(n) # ProtoKey /\ ValueText(n) # <<>>)
             => Decoded(ValueText(n), ObjGet(Mapping, KeyOf(n)))

\* {a: 007, name: Ada} has been read: 007 by Number, Ada as a bare string
C19_Witness ==
  /\ input = <<"{", "a", ":", " ", "0", "0", "7", ",", " ", "n", "a", "m", "e", ":", " ", "A", "d", "a", "}">>
  /\ result # null /\ result.success
  /\ Mapping = <<[k |-> <<"a">>, v |-> NumV(7, 0)],
                 [k |-> <<"n", "a", "m", "e">>, v |-> StrV(<<"A", "d", "a">>)]>>

\* C20: the call fails, returning the failure and nothing else, exactly when
\* the trimmed input lacks a brace at either end or some non-empty segment has
\* an empty sanitized key; otherwise it succeeds, with the empty mapping when
\* the interior is blank; and parseFlexibleJson on a text the call fails on
\* succeeds by another attempt or throws its own error
C20_FailsExactlyWhen ==
  result # null =>
    LET fails == ~Braced \/ \E n \in NonEmptySegments : KeyOf(n) = <<>>
        whole == parseFlexibleJson(input)
    IN /\ fails => result = LooseFailure
       /\ ~fails => /\ result.success
                    /\ DOMAIN result = {"success", "data"}
                    /\ Interior = <<>> => Mapping = <<>>
       /\ result = LooseFailure
            => IF whole.ok THEN whole.source \in {"json", "jsonl", "json5"}
               ELSE whole.message = NotUnderstoodMessage

\* {b:,: 1} has failed on its second segment, after the first gave an entry
C20_Witness ==
  /\ input = <<"{", "b", ":", ",", ":", " ", "1", "}">>
  /\ result = LooseFailure

(***************************************************************************)
(* The shape of what parseFlexibleJson reports                             *)
(***************************************************************************)
Sources == {"json", "jsonl", "json5", "loose-object"}

\* a value and its dialect and no error, or an error and no value; tried is
\* the record of the attempts, which the model adds to both
ValueOrError ==
  IF result.ok
  THEN DOMAIN result = {"ok", "data", "source", "tried"} /\ result.source \in Sources
  ELSE /\ DOMAIN result = {"ok", "message", "tried"}
       /\ result.message \in {EmptyMessage, NotUnderstoodMessage}

\* C21: what a call of parseFlexibleJson ends in is a value with its dialect
\* or an error, never both and never neither; a value reported as jsonl is an
\* array of at least two items, and a value reported as loose-object is an
\* object
C21_ResultShape ==
  Called =>
    /\ ValueOrError
    /\ (result.ok /\ result.source = "jsonl")
         => result.data.t = "array" /\ Len(result.data.items) >= 2
    /\ (result.ok /\ result.source = "loose-object")
         => result.data.t = "object"

\* two lines have come back as jsonl, one of them read by the loose parser
C21_Witness ==
  /\ Called /\ result.ok
  /\ result.source = "jsonl"
  /\ Len(result.data.items) = 2
  /\ \E k \in 1..2 :
       result.data.items[k]
         = ObjV(<<[k |-> <<"a">>, v |-> StrV(<<"/", "/">>)]>>)

====
